---- MODULE Spec2Model ----
(***************************************************************************)
(* Session and transport management of the n8n MCP gateway                 *)
(* (src/index.js, session variant, lines 1-566).                           *)
(*                                                                         *)
(* Several replicas (Procs) run the same code.  Each keeps its own         *)
(* localTransports Map and its own redisClient (null in local-only mode);  *)
(* the Redis store is shared.  A request handler is an async function: it  *)
(* runs synchronously up to its next await, so one action of the model is  *)
(* the code between two awaits, and handlers interleave at every await.    *)
(***************************************************************************)
EXTENDS Integers, Sequences, FiniteSets, TLC

\* ---- bounds -------------------------------------------------------------
MaxRequests == 3            \* requests received by the deployment in one run
MaxInFlight == 2            \* requests being handled at the same time
MaxClock == 2               \* clock readings after startup, half a TTL apart

SessionTtl == 7200          \* seconds a record written by setEx lives

Procs == {"A", "B"}         \* replicas
Null == [null |-> TRUE]     \* JS null / undefined for objects
NoId == "none"              \* absent (or empty) mcp-session-id / undefined sessionId
Forged == "forged"          \* a client-chosen id that no replica ever generated
Absent == ""                \* a header that is not sent, an unset env default

\* the header pairs (x-n8n-url, x-n8n-api-key) requests are drawn from
HeaderPairs == {<<Absent, Absent>>, <<"uH", "kH">>, <<Absent, "kH">>}

\* every combination of the two credential headers and of the two defaults
AllHeaderPairs == {Absent, "uH"} \X {Absent, "kH"}
AllDefaultPairs == {Absent, "uD"} \X {Absent, "kD"}

\* the deployment defaults (N8N_URL, N8N_API_KEY) a run is started with
DefaultPairs == {<<"uD", Absent>>}
Methods == {"initialize", "tools/list"}

VARIABLES
    redisClient,        \* [Procs -> BOOLEAN]: TRUE iff the replica connected at startup
                        \* (REDIS_URL is set and reachable for all replicas or for none)
    defaults,           \* <<DEFAULT_N8N_URL, DEFAULT_N8N_API_KEY>>
    localTransports,    \* [Procs -> set of entries]: the Map of each replica
    store,              \* the Redis keyspace mcp:session:*, a set of records
    transports,         \* the Transports built so far, by the request that built them
    reqs,               \* the request handlers started so far, with their position
    pendingDel,         \* ids whose redisClient.del, issued by an onclose, is in flight
    saved,              \* history: <<proc, id, request>> of the saveSession calls on
                        \* an id since it was last removed from that replica's Map
    deleted,            \* history: ids for which a deleteSession has completed on a
                        \* replica whose Map held the id or which uses the store
    now,                \* the clock of the store, in seconds since startup
    call,               \* the tool execution in progress, or the last one finished
    boot,               \* the environment the processes were started in
    secrets,            \* the secrets loader run at import (secrets-reader.js)
    upcalls,            \* the upstream calls of the tool handlers, each with its
                        \* AbortController and timer
    streams             \* the keepalive streams (GET /mcp, stateless variant)

vars == <<redisClient, defaults, localTransports, store, transports, reqs,
          pendingDel, saved, deleted, now, call, boot, secrets, upcalls, streams>>

\* ---- secrets loader (secrets-reader.js) ------------------------------------
\* the targets of secretMappings, in order, of the two copies of the loader
secretMappings(variant) ==
    IF variant = 1 THEN <<"N8N_URL", "N8N_API_KEY", "MCP_ALLOWED_KEYS">>
    ELSE <<"N8N_URL", "N8N_API_KEY", "SERVER_API_KEY", "REDIS_URL">>

\* an environment variable: not defined, or defined with a string (a
\* sequence of characters, possibly empty)
Undefined == [set |-> FALSE, val |-> <<>>]
Val(s) == [set |-> TRUE, val |-> s]

\* `!x` on an environment variable is false
Truthy(v) == v.set /\ v.val # <<>>

Whitespace == {" ", "\n", "\t"}

RECURSIVE TrimStart(_)
TrimStart(s) == IF s # <<>> /\ Head(s) \in Whitespace THEN TrimStart(Tail(s)) ELSE s

RECURSIVE TrimEnd(_)
TrimEnd(s) ==
    IF s # <<>> /\ s[Len(s)] \in Whitespace THEN TrimEnd(SubSeq(s, 1, Len(s) - 1)) ELSE s

\* String.prototype.trim
Trim(s) == TrimEnd(TrimStart(s))

\* what is at the path a _FILE variable names: nothing, a file that cannot be
\* read, a file with some content
File(exists, readable, content) ==
    [exists |-> exists, readable |-> readable, content |-> content]

Contents == {<<>>, <<" ", "\n">>, <<"s">>, <<" ", "s", "\n">>, <<"s", " ", "k", "\n">>}

Files ==
    {File(FALSE, FALSE, <<>>), File(TRUE, FALSE, <<>>)}
        \cup {File(TRUE, TRUE, c) : c \in Contents}

\* the values of a _FILE variable and of a target before the loader runs
FileEnvs == {Undefined, Val(<<>>), Val(<<"/", "p">>)}
TargetValues == {Undefined, Val(<<>>), Val(<<"o", "l", "d">>)}

\* a loop body whose read is outside any try block
loadSecretNoCatch(cur, fileEnv, file) ==
    IF ~Truthy(fileEnv) THEN [value |-> cur, raised |-> FALSE]
    ELSE IF Truthy(cur) THEN [value |-> cur, raised |-> FALSE]
    ELSE IF ~file.exists THEN [value |-> cur, raised |-> FALSE]
    ELSE IF ~file.readable THEN [value |-> cur, raised |-> TRUE]
    ELSE IF Trim(file.content) = <<>> THEN [value |-> cur, raised |-> FALSE]
    ELSE [value |-> Val(Trim(file.content)), raised |-> FALSE]

\* the loop body (secrets-reader.js 18-38): the value the target has after it
\* and whether an exception left it
loadSecret(cur, fileEnv, file) ==
    IF ~Truthy(fileEnv) THEN [value |-> cur, raised |-> FALSE]
    ELSE IF Truthy(cur) THEN [value |-> cur, raised |-> FALSE]
    ELSE IF ~file.exists THEN [value |-> cur, raised |-> FALSE]
    ELSE IF ~file.readable THEN [value |-> cur, raised |-> FALSE]
    ELSE IF Trim(file.content) = <<>> THEN [value |-> cur, raised |-> FALSE]
    ELSE [value |-> Val(Trim(file.content)), raised |-> FALSE]

\* the loader is not running
NoSecrets == [variant |-> 0, pos |-> 0, env |-> <<>>, fileEnv |-> Undefined,
              file |-> File(FALSE, FALSE, <<>>), raised |-> FALSE]

\* ---- startup (index.js 41-64) ----------------------------------------------
\* the environment: is REDIS_URL set, does the first connect succeed, and
\* SERVER_API_KEY ("" when not set)
Boot(url, ok, key) == [url |-> url, ok |-> ok, serverKey |-> key]

StartupIgnoreFailure(b) == b.url

\* redisClient after startup: a client iff REDIS_URL is set and
\* `await redisClient.connect()` did not throw; null otherwise
Startup(b) == b.url /\ b.ok

\* ---- Map --------------------------------------------------------------
\* A JS Map (and the Redis keyspace) as a set of entries carrying their key.
MapHas(m, k) == \E e \in m : e.key = k

MapGet(m, k) == IF MapHas(m, k) THEN CHOOSE e \in m : e.key = k ELSE Null

MapSetAppend(m, k, v) == m \cup {v}

MapSet(m, k, v) == {e \in m : e.key # k} \cup {v}

MapDelete(m, k) == {e \in m : e.key # k}

\* ---- helpers of the source ----------------------------------------------
\* randomUUID(): a value no other call returns; the call made for the
\* Transport of request r is named after r.
randomUUID(r) == "uuid" \o ToString(r)

AnyRequestInitializes(method) == TRUE

isInitializeRequest(method) == method = "initialize"

getCredentialsNoKeyCheck(hUrl, hKey) ==
    LET url    == IF hUrl # Absent THEN hUrl ELSE defaults[1]
        apiKey == IF hKey # Absent THEN hKey ELSE defaults[2]
    IN  IF url = Absent THEN [err |-> "url", url |-> url, apiKey |-> apiKey]
        ELSE [err |-> "", url |-> url, apiKey |-> apiKey]

\* a resolution that takes both values from the headers or both from the
\* defaults
getCredentialsJoint(hUrl, hKey) ==
    LET fromHdr == hUrl # Absent /\ hKey # Absent
        url     == IF fromHdr THEN hUrl ELSE defaults[1]
        apiKey  == IF fromHdr THEN hKey ELSE defaults[2]
    IN  IF url = Absent THEN [err |-> "url", url |-> url, apiKey |-> apiKey]
        ELSE IF apiKey = Absent THEN [err |-> "apiKey", url |-> url, apiKey |-> apiKey]
        ELSE [err |-> "", url |-> url, apiKey |-> apiKey]

\* getCredentials(req): header or default, then the two checks in order.
getCredentials(hUrl, hKey) ==
    LET url    == IF hUrl # Absent THEN hUrl ELSE defaults[1]
        apiKey == IF hKey # Absent THEN hKey ELSE defaults[2]
    IN  IF url = Absent THEN [err |-> "url", url |-> url, apiKey |-> apiKey]
        ELSE IF apiKey = Absent THEN [err |-> "apiKey", url |-> url, apiKey |-> apiKey]
        ELSE [err |-> "", url |-> url, apiKey |-> apiKey]

Entry(k, t, u, a) == [key |-> k, transport |-> t, n8nUrl |-> u, n8nApiKey |-> a]

\* a record of the store: the JSON value and the expiry setEx gave the key
Record(k, u, a, exp) == [key |-> k, n8nUrl |-> u, n8nApiKey |-> a, expiresAt |-> exp]

\* new StreamableHTTPServerTransport({ sessionIdGenerator }): gen is the id a
\* fixed generator returns, NoId for the randomUUID generator.
NewTransport(p, gen, u, a) ==
    [proc |-> p, gen |-> gen, sessionId |-> NoId, closed |-> FALSE,
     n8nUrl |-> u, n8nApiKey |-> a]

OncloseSidCaptured(t) == transports[t].gen

\* the id the onclose callback of Transport t passes to deleteSession: the
\* captured sessionId (reconstruction) or transport.sessionId (handshake)
OncloseSid(t) ==
    IF transports[t].gen # NoId THEN transports[t].gen ELSE transports[t].sessionId

sessionExistsAlways(p, sid) == TRUE

sessionExists(p, sid) ==
    IF redisClient[p] THEN MapHas(store, sid) ELSE MapHas(localTransports[p], sid)

getSessionAnywhere(p, sid) ==
    IF MapHas(localTransports[p], sid) THEN MapGet(localTransports[p], sid)
    ELSE IF \E q \in Procs : MapHas(localTransports[q], sid)
         THEN MapGet(localTransports[CHOOSE q \in Procs : MapHas(localTransports[q], sid)], sid)
         ELSE Null

getSession(p, sid) == MapGet(localTransports[p], sid)

activeSessionCountStore(p) ==
    IF redisClient[p] THEN Cardinality(store) ELSE Cardinality(localTransports[p])

activeSessionCount(p) == Cardinality(localTransports[p])

\* ---- tool handlers (createMcpServer) -------------------------------------
\* the three servers of the repository: index.js 1-566, index.js 568-835 and
\* the stdio server
Variants == {"session", "stateless", "stdio"}

Webhook == "execute_workflow_via_webhook"

\* the tools that call the n8n API through n8nRequest
ApiTools == {"list_workflows", "search_workflows", "get_workflow", "create_workflow",
             "update_workflow", "activate_workflow", "delete_workflow",
             "get_executions", "get_node_types", "get_workflow_as_template"}

\* the tools each server registers (the stateless one has no get_node_types)
ToolsOf(v) == IF v = "stateless" THEN (ApiTools \ {"get_node_types"}) \cup {Webhook}
              ELSE ApiTools \cup {Webhook}

\* the `payload` argument of a call: none, an object, a string that is JSON,
\* a string that is not
Payloads == {"absent", "object", "jsonString", "malformedString"}

\* what the upstream call does: 2xx with the expected body, 2xx with another
\* body, a non-2xx status, a network failure, no answer within the timeout
Upstream == {"ok", "badShape", "non2xx", "network", "timeout"}

\* the tools whose handler dereferences fields of the body (data.nodes.map,
\* data.name, list.filter, throw new Error("Resposta inesperada"))
ShapeSensitive == {"search_workflows", "get_workflow", "create_workflow", "update_workflow",
                   "get_node_types", "get_workflow_as_template"}

NoCall == [variant |-> "", tool |-> "", payload |-> "", pc |-> "idle",
           upstream |-> "", content |-> 0, isError |-> FALSE]

\* JSON.parse(text) throws a SyntaxError on text that is not JSON
JSONparseThrows(payload) == payload = "malformedString"

\* the statements a handler runs before its try block throw: only the
\* stateless execute_workflow_via_webhook has any,
\* `payload ? (typeof payload === "string" ? JSON.parse(payload) : payload) : {}`
ThrowsBeforeTry(v, tool, payload) ==
    v = "stateless" /\ tool = Webhook /\ JSONparseThrows(payload)

\* a tool handler is called and runs to its first await (fetch)
ToolStart(v, tool, payload) ==
    /\ call.pc \in {"idle", "returned", "raised"}
    /\ tool \in ToolsOf(v)
    /\ call' = [NoCall EXCEPT !.variant = v, !.tool = tool, !.payload = payload,
                              !.pc = IF ThrowsBeforeTry(v, tool, payload)
                                     THEN "raised" ELSE "fetch"]
    /\ UNCHANGED <<boot, secrets, upcalls, streams, redisClient, defaults, localTransports, store, transports, reqs,
                   pendingDel, saved, deleted, now>>

\* the result the handler returns for upstream outcome o: the value of its
\* try block, or of its catch block when a statement of the try block throws
ToolResult(tool, o) ==
    IF tool = Webhook
    THEN CASE o \in {"ok", "badShape"}      -> [content |-> 2, isError |-> FALSE]
           [] o = "non2xx"                  -> [content |-> 1, isError |-> TRUE]
           [] o \in {"network", "timeout"}  -> [content |-> 1, isError |-> TRUE]
    ELSE CASE o = "ok"                      -> [content |-> IF tool \in {"activate_workflow", "delete_workflow"}
                                                            THEN 1 ELSE 2,
                                                isError |-> FALSE]
           [] o = "badShape"                -> IF tool \in ShapeSensitive
                                               THEN [content |-> 1, isError |-> TRUE]
                                               ELSE [content |-> IF tool \in {"activate_workflow", "delete_workflow"}
                                                                 THEN 1 ELSE 2,
                                                     isError |-> FALSE]
           [] o \in {"non2xx", "network", "timeout"} -> [content |-> 1, isError |-> TRUE]

\* the upstream call settles and the handler runs to its return
ToolAfterFetch(o) ==
    /\ call.pc = "fetch"
    /\ call' = [call EXCEPT !.pc = "returned", !.upstream = o,
                            !.content = ToolResult(call.tool, o).content,
                            !.isError = ToolResult(call.tool, o).isError]
    /\ UNCHANGED <<boot, secrets, upcalls, streams, redisClient, defaults, localTransports, store, transports, reqs,
                   pendingDel, saved, deleted, now>>

\* ---- responses -----------------------------------------------------------
NoResponse      == [by |-> "none", status |-> 0, code |-> 0, msg |-> ""]
Forwarded       == [by |-> "transport", status |-> 0, code |-> 0, msg |-> ""]
SessionNotFound == [by |-> "router", status |-> 400, code |-> -32000, msg |-> "session not found"]
CredentialError(e) == [by |-> "router", status |-> 400, code |-> -32000, msg |-> e]
FrameworkError  == [by |-> "framework", status |-> 500, code |-> 0, msg |-> "error"]
\* res.status(202).end() (index.js 780): an empty 202 from the route handler
Ack202          == [by |-> "router", status |-> 202, code |-> 0, msg |-> ""]
TeardownOk      == [by |-> "router", status |-> 200, code |-> 0, msg |-> "ok"]
TeardownNotFound == [by |-> "router", status |-> 404, code |-> 0, msg |-> "not found"]
TeardownNoHeader == [by |-> "router", status |-> 400, code |-> 0, msg |-> "header required"]

\* ---- request handlers ---------------------------------------------------
\* a gate that lets every request with an Authorization header pass
AuthorizedAnyHeader(auth) == boot.serverKey = "" \/ auth # Absent

\* index.js 441-447: the middleware every request passes before its route;
\* auth is the request's Authorization header
Authorized(auth) == boot.serverKey = "" \/ auth = "Bearer " \o boot.serverKey

NewRequest(p, verb, sid, method, hdr, auth) ==
    [proc |-> p, verb |-> verb, sid |-> sid, method |-> method,
     hUrl |-> hdr[1], hKey |-> hdr[2], auth |-> auth,
     pc |-> "start", session |-> Null, raw |-> Null,
     n8nUrl |-> Absent, n8nApiKey |-> Absent,
     res |-> NoResponse, fwd |-> 0, built |-> FALSE,
     closeTried |-> FALSE, closeFailed |-> FALSE,
     late |-> sid \in deleted]

\* ids a client can put in the mcp-session-id header: one it was issued, or
\* one of its own making
KnownIds ==
    {transports[t].sessionId : t \in {u \in DOMAIN transports : reqs[u].pc = "done"}} \ {NoId}

\* transport.handleRequest(req, res, req.body): an initialize request makes a
\* Transport without session id take one from its generator.
HandleRequest(ts, t, method) ==
    IF isInitializeRequest(method) /\ ts[t].sessionId = NoId
    THEN [ts EXCEPT ![t].sessionId =
              IF ts[t].gen # NoId THEN ts[t].gen ELSE randomUUID(t)]
    ELSE ts

\* index.js 491-524: from the initialize check to `await mcpServer.connect`
\* of the handshake path.  rs is the handler table, r the handler.
Line492(rs, r) ==
    IF ~isInitializeRequest(rs[r].method)
    THEN /\ reqs' = [rs EXCEPT ![r].pc = "done", ![r].res = SessionNotFound]
         /\ UNCHANGED transports
    ELSE LET c == getCredentials(rs[r].hUrl, rs[r].hKey) IN
         IF c.err # ""
         THEN /\ reqs' = [rs EXCEPT ![r].pc = "done", ![r].res = CredentialError(c.err)]
              /\ UNCHANGED transports
         ELSE /\ transports' = (r :> NewTransport(rs[r].proc, NoId, c.url, c.apiKey)) @@ transports
              /\ reqs' = [rs EXCEPT ![r].pc = "L524", ![r].built = TRUE,
                                    ![r].n8nUrl = c.url, ![r].n8nApiKey = c.apiKey]

\* index.js 460-465: a POST /mcp arrives; with a session id the handler runs
\* to `await getSession`, without one to the handshake path.
PostStart(p, sid, method, hdr, auth) ==
    /\ Authorized(auth)
    /\ LET r    == Len(reqs) + 1
           base == NewRequest(p, "POST", sid, method, hdr, auth)
       IN  IF sid # NoId
           THEN /\ reqs' = Append(reqs, [base EXCEPT !.pc = "L465",
                                                     !.session = getSession(p, sid)])
                /\ UNCHANGED transports
           ELSE Line492(Append(reqs, base), r)
    /\ UNCHANGED <<redisClient, defaults, now, call, boot, secrets, upcalls, streams, localTransports, store, pendingDel, saved, deleted>>

\* index.js 466-472: after getSession: forward into the local Transport, or
\* ask the store, or (no store) fall through to the handshake path.
\* a router that asks the store before it looks at the session it found
PostAfterGetSessionStoreFirst(r) ==
    /\ reqs[r].pc = "L465"
    /\ IF redisClient[reqs[r].proc]
       THEN /\ reqs' = [reqs EXCEPT ![r].pc = "L472"]
            /\ UNCHANGED transports
       ELSE IF reqs[r].session # Null
            THEN /\ transports' = HandleRequest(transports, reqs[r].session.transport, reqs[r].method)
                 /\ reqs' = [reqs EXCEPT ![r].pc = "done", ![r].res = Forwarded,
                                         ![r].fwd = reqs[r].session.transport]
            ELSE Line492(reqs, r)
    /\ UNCHANGED <<redisClient, defaults, now, call, boot, secrets, upcalls, streams, localTransports, store, pendingDel, saved, deleted>>

PostAfterGetSession(r) ==
    /\ reqs[r].pc = "L465"
    /\ IF reqs[r].session # Null
       THEN /\ transports' = HandleRequest(transports, reqs[r].session.transport, reqs[r].method)
            /\ reqs' = [reqs EXCEPT ![r].pc = "done", ![r].res = Forwarded,
                                    ![r].fwd = reqs[r].session.transport]
       ELSE IF redisClient[reqs[r].proc]
            THEN /\ reqs' = [reqs EXCEPT ![r].pc = "L472"]
                 /\ UNCHANGED transports
            ELSE Line492(reqs, r)
    /\ UNCHANGED <<redisClient, defaults, now, call, boot, secrets, upcalls, streams, localTransports, store, pendingDel, saved, deleted>>

\* index.js 472-473: after sessionExists: fetch the record, or fall through.
PostAfterSessionExists(r) ==
    /\ reqs[r].pc = "L472"
    /\ IF sessionExists(reqs[r].proc, reqs[r].sid)
       THEN /\ reqs' = [reqs EXCEPT ![r].pc = "L473"]
            /\ UNCHANGED transports
       ELSE Line492(reqs, r)
    /\ UNCHANGED <<redisClient, defaults, now, call, boot, secrets, upcalls, streams, localTransports, store, pendingDel, saved, deleted>>

\* ---- Session Store (index.js 74-109) -------------------------------------
\* saveSession up to its await: localTransports.set(sessionId, {...})
saveSessionLocal(p, sid, u, a, t) ==
    [localTransports EXCEPT ![p] = MapSet(@, sid, Entry(sid, t, u, a))]

\* a record written with the deployment's URL in place of the session's
saveSessionRemoteDefaultUrl(p, sid, u, a) ==
    IF redisClient[p] THEN MapSet(store, sid, Record(sid, defaults[1], a, now + SessionTtl))
    ELSE store

\* saveSession after it: redisClient.setEx(key, 7200, JSON.stringify({...}))
saveSessionRemote(p, sid, u, a) ==
    IF redisClient[p] THEN MapSet(store, sid, Record(sid, u, a, now + SessionTtl)) ELSE store

deleteSessionLocalKeep(p, sid) == localTransports

\* deleteSession up to its await: localTransports.delete(sessionId)
deleteSessionLocal(p, sid) ==
    [localTransports EXCEPT ![p] = MapDelete(@, sid)]

\* deleteSession after it: redisClient.del(key)
deleteSessionRemote(p, sid) ==
    IF redisClient[p] THEN MapDelete(store, sid) ELSE store

SavedWithout(p, sid) == {x \in saved : ~(x[1] = p /\ x[2] = sid)}

\* ---- reconstruction path (index.js 471-488) -----------------------------
HeaderCredentials(raw, rq) ==
    [url |-> getCredentials(rq.hUrl, rq.hKey).url,
     apiKey |-> getCredentials(rq.hUrl, rq.hKey).apiKey]

\* const { n8nUrl, n8nApiKey } = JSON.parse(raw)
StoredCredentials(raw, rq) == [url |-> raw.n8nUrl, apiKey |-> raw.n8nApiKey]

FreshGenerator(sid) == NoId

\* sessionIdGenerator: () => sessionId
ReconGenerator(sid) == sid

\* index.js 473-484: after redisClient.get: parse the record, build the
\* dispatcher and the Transport, `await mcpServer.connect`.  JSON.parse(null)
\* is null, and destructuring null throws: the handler's promise is rejected.
\* The handler has no try/catch; what becomes of the request is up to the
\* express release installed: the rejection is passed to the default error
\* handler, which answers 500 (caught), or it is nobody's (the request gets
\* no response and the rejection is unhandled).
PostAfterRedisGet(r, caught) ==
    /\ reqs[r].pc = "L473"
    /\ LET raw == MapGet(store, reqs[r].sid) IN
       IF raw = Null
       THEN /\ reqs' = [reqs EXCEPT ![r].pc = "thrown",
                                    ![r].res = IF caught THEN FrameworkError ELSE NoResponse]
            /\ UNCHANGED transports
       ELSE LET c == StoredCredentials(raw, reqs[r]) IN
            /\ transports' = (r :> NewTransport(reqs[r].proc, ReconGenerator(reqs[r].sid),
                                                c.url, c.apiKey)) @@ transports
            /\ reqs' = [reqs EXCEPT ![r].pc = "L484", ![r].built = TRUE, ![r].raw = raw,
                                    ![r].n8nUrl = c.url, ![r].n8nApiKey = c.apiKey]
    /\ UNCHANGED <<redisClient, defaults, now, call, boot, secrets, upcalls, streams, localTransports, store, pendingDel, saved, deleted>>

\* index.js 485 and 82-83: after connect: saveSession runs to its await.
PostAfterConnect(r) ==
    /\ reqs[r].pc = "L484"
    /\ localTransports' = saveSessionLocal(reqs[r].proc, reqs[r].sid,
                                           reqs[r].n8nUrl, reqs[r].n8nApiKey, r)
    /\ saved' = saved \cup {<<reqs[r].proc, reqs[r].sid, r>>}
    /\ reqs' = [reqs EXCEPT ![r].pc = "L485"]
    /\ UNCHANGED <<redisClient, defaults, now, call, boot, secrets, upcalls, streams, store, transports, pendingDel, deleted>>

\* index.js 84-91 and 486: the record is written; the request is forwarded
\* into the Transport just built.
PostAfterSaveSession(r) ==
    /\ reqs[r].pc = "L485"
    /\ store' = saveSessionRemote(reqs[r].proc, reqs[r].sid, reqs[r].n8nUrl, reqs[r].n8nApiKey)
    /\ transports' = HandleRequest(transports, r, reqs[r].method)
    /\ reqs' = [reqs EXCEPT ![r].pc = "done", ![r].res = Forwarded, ![r].fwd = r]
    /\ UNCHANGED <<redisClient, defaults, now, call, boot, secrets, upcalls, streams, localTransports, pendingDel, saved, deleted>>

\* ---- handshake path (index.js 524-532) ----------------------------------
\* index.js 526-528: after connect: `transport.sessionId` is read.  The
\* Transport class is a dependency; the code provides for both outcomes
\* (`if (newSessionId)`): the id is already there (sidNow = TRUE) and the
\* session is saved, or it is still undefined and saveSession is skipped.
PostAfterConnectNew(r, sidNow) ==
    /\ reqs[r].pc = "L524"
    /\ IF sidNow
       THEN /\ transports' = [transports EXCEPT ![r].sessionId = randomUUID(r)]
            /\ localTransports' = saveSessionLocal(reqs[r].proc, randomUUID(r),
                                                   reqs[r].n8nUrl, reqs[r].n8nApiKey, r)
            /\ saved' = saved \cup {<<reqs[r].proc, randomUUID(r), r>>}
            /\ reqs' = [reqs EXCEPT ![r].pc = "L528"]
       ELSE /\ transports' = HandleRequest(transports, r, reqs[r].method)
            /\ reqs' = [reqs EXCEPT ![r].pc = "done", ![r].res = Forwarded, ![r].fwd = r]
            /\ UNCHANGED <<localTransports, saved>>
    /\ UNCHANGED <<redisClient, defaults, now, call, boot, secrets, upcalls, streams, store, pendingDel, deleted>>

\* index.js 84-91 and 529-532: the record is written; the initialize request
\* is forwarded into the new Transport.
PostAfterSaveSessionNew(r) ==
    /\ reqs[r].pc = "L528"
    /\ store' = saveSessionRemote(reqs[r].proc, transports[r].sessionId,
                                  reqs[r].n8nUrl, reqs[r].n8nApiKey)
    /\ transports' = HandleRequest(transports, r, reqs[r].method)
    /\ reqs' = [reqs EXCEPT ![r].pc = "done", ![r].res = Forwarded, ![r].fwd = r]
    /\ UNCHANGED <<redisClient, defaults, now, call, boot, secrets, upcalls, streams, localTransports, pendingDel, saved, deleted>>

\* ---- Transport close and its onclose callback ---------------------------
\* transport.onclose (index.js 479-482, 516-522) calls deleteSession, which
\* runs to its await: the entry leaves the Map of the Transport's replica,
\* and in distributed mode redisClient.del is issued.
OnClose(t, lt) ==
    LET p   == transports[t].proc
        sid == OncloseSid(t)
    IN  /\ transports' = [transports EXCEPT ![t].closed = TRUE]
        /\ IF sid = NoId
           THEN /\ localTransports' = lt
                /\ UNCHANGED <<pendingDel, saved>>
           ELSE /\ localTransports' = [lt EXCEPT ![p] = MapDelete(@, sid)]
                /\ saved' = SavedWithout(p, sid)
                /\ pendingDel' = IF redisClient[p] THEN pendingDel \cup {sid} ELSE pendingDel

\* the ids whose deleteSession, called by the onclose of t, has completed
\* when onclose returns to its await (local-only mode: at once)
ClosedNow(t) ==
    IF /\ OncloseSid(t) # NoId
       /\ ~redisClient[transports[t].proc]
       /\ MapHas(localTransports[transports[t].proc], OncloseSid(t))
    THEN {OncloseSid(t)} ELSE {}

\* the Transport emits its close signal on its own
TransportClose(t) ==
    /\ t \in DOMAIN transports
    /\ ~transports[t].closed
    /\ reqs[t].pc \notin {"L524", "L484"}
    /\ OnClose(t, localTransports)
    /\ deleted' = deleted \cup ClosedNow(t)
    /\ UNCHANGED <<redisClient, defaults, now, call, boot, secrets, upcalls, streams, store, reqs>>

\* the redisClient.del issued by an onclose takes effect (index.js 102)
RedisDel(k) ==
    /\ k \in pendingDel
    /\ store' = MapDelete(store, k)
    /\ pendingDel' = pendingDel \ {k}
    /\ deleted' = deleted \cup {k}
    /\ UNCHANGED <<redisClient, defaults, now, call, boot, secrets, upcalls, streams, localTransports, transports, reqs, saved>>

\* ---- DELETE /mcp (index.js 541-552) -------------------------------------
TeardownAlwaysOk(session) == TeardownOk

TeardownResponse(session) == IF session # Null THEN TeardownOk ELSE TeardownNotFound

CloseEscapes(failed) == failed

\* try { session.transport.close(); } catch {}: does a failure of close
\* leave the handler?
CloseThrows(failed) == FALSE

\* a teardown that does not look whether the header was sent
DeleteStartAnyHeader(p, sid, auth) ==
    /\ Authorized(auth)
    /\ LET base == NewRequest(p, "DELETE", sid, "", <<Absent, Absent>>, auth) IN
       /\ reqs' = Append(reqs, [base EXCEPT !.pc = "L545",
                                            !.session = getSession(p, sid)])
       /\ localTransports' = deleteSessionLocal(p, sid)
       /\ saved' = SavedWithout(p, sid)
       /\ deleted' = IF redisClient[p] \/ ~MapHas(localTransports[p], sid)
                     THEN deleted ELSE deleted \cup {sid}
    /\ UNCHANGED <<redisClient, defaults, now, call, boot, secrets, upcalls, streams, store, transports, pendingDel>>

\* index.js 542-545 and 98-100: a DELETE /mcp arrives; deleteSession runs to
\* its await.
DeleteStart(p, sid, auth) ==
    /\ Authorized(auth)
    /\ LET base == NewRequest(p, "DELETE", sid, "", <<Absent, Absent>>, auth) IN
       IF sid = NoId
       THEN /\ reqs' = Append(reqs, [base EXCEPT !.pc = "done", !.res = TeardownNoHeader])
            /\ UNCHANGED <<localTransports, saved, deleted>>
       ELSE /\ reqs' = Append(reqs, [base EXCEPT !.pc = "L545",
                                                 !.session = getSession(p, sid)])
            /\ localTransports' = deleteSessionLocal(p, sid)
            /\ saved' = SavedWithout(p, sid)
            /\ deleted' = IF redisClient[p] \/ ~MapHas(localTransports[p], sid)
                          THEN deleted ELSE deleted \cup {sid}
    /\ UNCHANGED <<redisClient, defaults, now, call, boot, secrets, upcalls, streams, store, transports, pendingDel>>

\* index.js 101-104 and 546-551: the record is deleted; a known session's
\* Transport is closed, best effort, and the response is sent.
DeleteAfterDeleteSession(r, failed) ==
    /\ reqs[r].pc = "L545"
    /\ store' = deleteSessionRemote(reqs[r].proc, reqs[r].sid)
    /\ IF reqs[r].session = Null
       THEN /\ ~failed
            /\ reqs' = [reqs EXCEPT ![r].pc = "done",
                                    ![r].res = TeardownResponse(reqs[r].session)]
            /\ deleted' = IF redisClient[reqs[r].proc]
                          THEN deleted \cup {reqs[r].sid} ELSE deleted
            /\ UNCHANGED <<localTransports, transports, pendingDel, saved>>
       ELSE LET t == reqs[r].session.transport IN
            /\ IF failed
               THEN UNCHANGED <<localTransports, transports, pendingDel, saved>>
               ELSE OnClose(t, localTransports)
            /\ deleted' = deleted \cup (IF redisClient[reqs[r].proc] THEN {reqs[r].sid} ELSE {})
                                  \cup (IF failed THEN {} ELSE ClosedNow(t))
            /\ reqs' = IF CloseThrows(failed)
                       THEN [reqs EXCEPT ![r].pc = "thrown", ![r].closeTried = TRUE,
                                         ![r].closeFailed = failed]
                       ELSE [reqs EXCEPT ![r].pc = "done", ![r].closeTried = TRUE,
                                         ![r].closeFailed = failed,
                                         ![r].res = TeardownResponse(reqs[r].session)]
    /\ UNCHANGED <<redisClient, defaults, now, call, boot, secrets, upcalls, streams>>

\* ---- the deployment -----------------------------------------------------
Init ==
    /\ boot \in {Boot(TRUE, TRUE, ""), Boot(FALSE, FALSE, "")}
    /\ redisClient = [p \in Procs |-> Startup(boot)]
    /\ defaults \in DefaultPairs
    /\ localTransports = [p \in Procs |-> {}]
    /\ store = {}
    /\ transports = <<>>
    /\ reqs = <<>>
    /\ pendingDel = {}
    /\ saved = {}
    /\ deleted = {}
    /\ now = 0
    /\ call = NoCall
    /\ upcalls = <<>>
    /\ streams = <<>>
    /\ secrets = NoSecrets

HeaderIds == KnownIds \cup {NoId, Forged}

\* the POST requests of a run: a handshake sends both credential headers or
\* none; a request that names a session sends another pair, the key alone
PostInputs ==
    {x \in HeaderIds \X Methods \X HeaderPairs :
        \/ x[1] = NoId /\ x[2] = "initialize" /\ x[3] # <<Absent, "kH">>
        \/ x[1] # NoId /\ x[3] = <<Absent, "kH">>}

\* replicas are interchangeable: the first request of a run goes to A
Addressed(p) == reqs = <<>> => p = "A"

InFlight == {r \in DOMAIN reqs : reqs[r].pc \notin {"done", "thrown"}}

\* the deployment accepts one more request
Accepting == Len(reqs) < MaxRequests /\ Cardinality(InFlight) < MaxInFlight

Next ==
    \/ \E p \in Procs, x \in PostInputs :
           Accepting /\ Addressed(p) /\ PostStart(p, x[1], x[2], x[3], Absent)
    \/ \E r \in DOMAIN reqs : PostAfterGetSession(r)
    \/ \E r \in DOMAIN reqs : PostAfterSessionExists(r)
    \/ \E r \in DOMAIN reqs, caught \in BOOLEAN : PostAfterRedisGet(r, caught)
    \/ \E r \in DOMAIN reqs : PostAfterConnect(r)
    \/ \E r \in DOMAIN reqs : PostAfterSaveSession(r)
    \/ \E r \in DOMAIN reqs, sidNow \in BOOLEAN : PostAfterConnectNew(r, sidNow)
    \/ \E r \in DOMAIN reqs : PostAfterSaveSessionNew(r)
    \/ \E p \in Procs, sid \in HeaderIds : Accepting /\ Addressed(p) /\ DeleteStart(p, sid, Absent)
    \/ \E r \in DOMAIN reqs, failed \in BOOLEAN : DeleteAfterDeleteSession(r, failed)
    \/ \E k \in pendingDel : RedisDel(k)

\* the server as it runs: a Transport is closed by DELETE /mcp only
Spec == Init /\ [][Next]_vars

\* the server with Transports that also emit their close signal themselves
NextSignal ==
    \/ Next
    \/ \E t \in DOMAIN transports : TransportClose(t)

SpecSignal == Init /\ [][NextSignal]_vars

OnRedisErrorFallback(rc, p) == [rc EXCEPT ![p] = FALSE]

\* redisClient.on("error", (err) => console.error(...)) (index.js 57): the
\* client of replica p reports an error; the handler writes a log line
OnRedisError(rc, p) == rc

\* a store operation fails after startup: the setEx awaited by saveSession
\* (index.js 86-90) rejects.  The entry saveSession put in the Map before its
\* await stays; nothing catches the rejection before the route handler,
\* which ends as in PostAfterRedisGet.
SaveSessionFails(r, caught) ==
    /\ reqs[r].pc \in {"L485", "L528"}
    /\ redisClient[reqs[r].proc]
    /\ redisClient' = OnRedisError(redisClient, reqs[r].proc)
    /\ reqs' = [reqs EXCEPT ![r].pc = "thrown",
                            ![r].res = IF caught THEN FrameworkError ELSE NoResponse]
    /\ UNCHANGED <<boot, secrets, upcalls, streams, defaults, localTransports, store, transports,
                   pendingDel, saved, deleted, now, call>>

\* the environments a process can start in: no REDIS_URL, REDIS_URL with a
\* store that answers, REDIS_URL with a store that does not
InitFault ==
    /\ boot \in {Boot(FALSE, FALSE, ""), Boot(TRUE, TRUE, ""), Boot(TRUE, FALSE, "")}
    /\ redisClient = [p \in Procs |-> Startup(boot)]
    /\ defaults \in DefaultPairs
    /\ localTransports = [p \in Procs |-> {}]
    /\ store = {}
    /\ transports = <<>>
    /\ reqs = <<>>
    /\ pendingDel = {}
    /\ saved = {}
    /\ deleted = {}
    /\ now = 0
    /\ call = NoCall
    /\ upcalls = <<>>
    /\ streams = <<>>
    /\ secrets = NoSecrets

\* the server with store operations that fail after startup
NextFault ==
    \/ Next
    \/ \E r \in DOMAIN reqs, caught \in BOOLEAN : SaveSessionFails(r, caught)

SpecFault == InitFault /\ [][NextFault]_vars

\* index.js 450-457: res.json({ status, sessions, sessionStore, time })
HealthResponse(p) ==
    [by |-> "router", status |-> 200, code |-> 0, msg |-> "ok",
     sessions |-> activeSessionCount(p),
     sessionStore |-> IF redisClient[p] THEN "redis" ELSE "memory"]

\* GET /health on replica p: a synchronous handler
Health(p, auth) ==
    /\ Authorized(auth)
    /\ reqs' = Append(reqs, [NewRequest(p, "GET", NoId, "", <<Absent, Absent>>, auth)
                                EXCEPT !.pc = "done", !.res = HealthResponse(p)])
    /\ UNCHANGED <<boot, secrets, upcalls, streams, redisClient, defaults, localTransports, store,
                   transports, pendingDel, saved, deleted, now, call>>

\* the server with its health probe being called
NextHealth ==
    \/ Next
    \/ \E p \in Procs : Accepting /\ Addressed(p) /\ Health(p, Absent)

SpecHealth == Init /\ [][NextHealth]_vars

\* ---- the gateway bearer token (SERVER_API_KEY, index.js 41 and 440-446)

\* Authorization headers a client sends: none, the exact one, the bare token
Auths == {Absent, "Bearer sk", "sk"}

Unauthorized == [by |-> "middleware", status |-> 401, code |-> 0, msg |-> "Unauthorized"]

\* the middleware answers 401 and does not call next(): no route runs
Reject401(p, verb, sid, auth) ==
    /\ ~Authorized(auth)
    /\ reqs' = Append(reqs, [NewRequest(p, verb, sid, "", <<Absent, Absent>>, auth)
                                EXCEPT !.pc = "done", !.res = Unauthorized])
    /\ UNCHANGED <<boot, secrets, upcalls, streams, redisClient, defaults, localTransports, store,
                   transports, pendingDel, saved, deleted, now, call>>

\* a deployment in distributed mode, with the token configured or without
InitAuth ==
    /\ boot \in {Boot(TRUE, TRUE, "sk"), Boot(TRUE, TRUE, "")}
    /\ redisClient = [p \in Procs |-> Startup(boot)]
    /\ defaults = <<"uD", Absent>>
    /\ localTransports = [p \in Procs |-> {}]
    /\ store = {}
    /\ transports = <<>>
    /\ reqs = <<>>
    /\ pendingDel = {}
    /\ saved = {}
    /\ deleted = {}
    /\ now = 0
    /\ call = NoCall
    /\ upcalls = <<>>
    /\ streams = <<>>
    /\ secrets = NoSecrets

\* the server receiving requests with and without Authorization header
NextAuth ==
    \/ Next
    \/ \E p \in Procs, x \in PostInputs, auth \in Auths \ {Absent} :
           Accepting /\ Addressed(p) /\ PostStart(p, x[1], x[2], x[3], auth)
    \/ \E p \in Procs, sid \in HeaderIds, auth \in Auths \ {Absent} :
           Accepting /\ Addressed(p) /\ DeleteStart(p, sid, auth)
    \/ \E p \in Procs, auth \in Auths : Accepting /\ Addressed(p) /\ Health(p, auth)
    \/ \E p \in Procs, verb \in {"POST", "DELETE", "GET"}, sid \in HeaderIds,
          auth \in Auths :
           Accepting /\ Addressed(p) /\ Reject401(p, verb, sid, auth)

SpecAuth == InitAuth /\ [][NextAuth]_vars

\* ---- concurrent upstream calls (index.js 123-154 and 321-344)

\* most tool calls started in a run, most sessions they run on
MaxCalls == 3
MaxSessions == 2

\* a tool of each kind: n8nRequest (10 s timer), the webhook (15 s timer)
CallTools == {"list_workflows", Webhook}

\* what the upstream does to a call whose signal was not aborted
Settles == {"ok", "non2xx"}

\* Transport t serves tool calls: an entry of its replica's Map leads to it
Serving(t) ==
    /\ ~transports[t].closed
    /\ reqs[t].pc = "done"
    /\ \E e \in localTransports[transports[t].proc] : e.transport = t

\* `const controller = new AbortController(); const timeout = setTimeout(...)`
\* and the fetch awaited with controller.signal: the call's own timer and
\* the state of its own signal
NewCallLastSession(t, tool) ==
    LET last == CHOOSE u \in DOMAIN transports : \A v \in DOMAIN transports : v <= u IN
    [t |-> t, tool |-> tool, pc |-> "fetch", timer |-> "armed", aborted |-> FALSE,
     upstream |-> "", isError |-> FALSE,
     url |-> IF tool = Webhook THEN "webhookUrl" ELSE transports[last].n8nUrl,
     key |-> IF tool = Webhook THEN Absent ELSE transports[last].n8nApiKey]

\* url and key are the upstream the fetch goes to and the bearer key it
\* sends: those of the n8nRequest closure the Transport's McpServer was made
\* with (index.js 125-138), for the webhook tool its webhookUrl argument and
\* no key (325-330)
NewCall(t, tool) ==
    [t |-> t, tool |-> tool, pc |-> "fetch", timer |-> "armed", aborted |-> FALSE,
     upstream |-> "", isError |-> FALSE,
     url |-> IF tool = Webhook THEN "webhookUrl" ELSE transports[t].n8nUrl,
     key |-> IF tool = Webhook THEN Absent ELSE transports[t].n8nApiKey]

\* a tool call on the session of Transport t runs to its await of fetch
CallStart(t, tool) ==
    /\ Len(upcalls) < MaxCalls
    /\ Serving(t)
    /\ upcalls' = Append(upcalls, NewCall(t, tool))
    /\ UNCHANGED <<boot, secrets, streams, redisClient, defaults, localTransports, store,
                   transports, reqs, pendingDel, saved, deleted, now, call>>

\* an abort scope held in common: every fetch in flight is aborted
AbortShared(cs, i) ==
    [j \in DOMAIN cs |->
        IF cs[j].pc = "fetch" THEN [cs[j] EXCEPT !.aborted = TRUE] ELSE cs[j]]

\* controller.abort() in the timer callback of call i: the controller is a
\* const of that invocation
Abort(cs, i) == [cs EXCEPT ![i].aborted = TRUE]

\* the timer of call i fires before its fetch has settled
CallTimeout(i) ==
    /\ upcalls[i].pc = "fetch"
    /\ upcalls[i].timer = "armed"
    /\ upcalls' = Abort([upcalls EXCEPT ![i].timer = "fired"], i)
    /\ UNCHANGED <<boot, secrets, streams, redisClient, defaults, localTransports, store,
                   transports, reqs, pendingDel, saved, deleted, now, call>>

\* the fetch of call i settles: rejected when its signal is aborted, else as
\* the upstream answers; clearTimeout runs on both paths and the handler
\* returns its result
CallSettles(i, o) ==
    /\ upcalls[i].pc = "fetch"
    /\ IF upcalls[i].aborted THEN o = "timeout" ELSE o \in Settles
    /\ upcalls' = [upcalls EXCEPT ![i].pc = "returned",
                                  ![i].timer = IF @ = "armed" THEN "cleared" ELSE @,
                                  ![i].upstream = o,
                                  ![i].isError = ToolResult(upcalls[i].tool, o).isError]
    /\ UNCHANGED <<boot, secrets, streams, redisClient, defaults, localTransports, store,
                   transports, reqs, pendingDel, saved, deleted, now, call>>

\* sessions are opened one after the other, then tools are called on them
NextUpstream ==
    \/ \E p \in Procs, hdr \in {<<"uH", "kH">>} :
           /\ Len(reqs) < MaxSessions /\ InFlight = {} /\ Addressed(p)
           /\ PostStart(p, NoId, "initialize", hdr, Absent)
    \/ \E r \in DOMAIN reqs : PostAfterConnectNew(r, TRUE)
    \/ \E r \in DOMAIN reqs : PostAfterSaveSessionNew(r)
    \/ \E t \in DOMAIN transports, tool \in CallTools : CallStart(t, tool)
    \/ \E i \in DOMAIN upcalls : CallTimeout(i)
    \/ \E i \in DOMAIN upcalls, o \in Settles \cup {"timeout"} : CallSettles(i, o)

SpecUpstream == Init /\ [][NextUpstream]_vars

\* ---- tenants: sessions with different credentials and their tool calls

\* a deployment with both defaults set, in either mode
InitTenant ==
    /\ boot \in {Boot(TRUE, TRUE, ""), Boot(FALSE, FALSE, "")}
    /\ redisClient = [p \in Procs |-> Startup(boot)]
    /\ defaults = <<"uD", "kD">>
    /\ localTransports = [p \in Procs |-> {}]
    /\ store = {}
    /\ transports = <<>>
    /\ reqs = <<>>
    /\ pendingDel = {}
    /\ saved = {}
    /\ deleted = {}
    /\ now = 0
    /\ call = NoCall
    /\ upcalls = <<>>
    /\ streams = <<>>
    /\ secrets = NoSecrets

\* sessions are opened with any credential headers, one after the other;
\* requests with other headers follow on either replica; tools are called
NextTenant ==
    \/ \E p \in Procs, hdr \in AllHeaderPairs :
           /\ Len(reqs) < MaxSessions /\ InFlight = {} /\ Addressed(p)
           /\ PostStart(p, NoId, "initialize", hdr, Absent)
    \/ \E p \in Procs, sid \in KnownIds, hdr \in {<<Absent, "kH">>, <<"uH", Absent>>} :
           /\ Len(reqs) < MaxRequests /\ InFlight = {}
           /\ PostStart(p, sid, "tools/list", hdr, Absent)
    \/ \E r \in DOMAIN reqs : PostAfterGetSession(r)
    \/ \E r \in DOMAIN reqs : PostAfterSessionExists(r)
    \/ \E r \in DOMAIN reqs : PostAfterRedisGet(r, TRUE)
    \/ \E r \in DOMAIN reqs : PostAfterConnect(r)
    \/ \E r \in DOMAIN reqs : PostAfterSaveSession(r)
    \/ \E r \in DOMAIN reqs : PostAfterConnectNew(r, TRUE)
    \/ \E r \in DOMAIN reqs : PostAfterSaveSessionNew(r)
    \/ \E t \in DOMAIN transports, tool \in CallTools : CallStart(t, tool)

SpecTenant == InitTenant /\ [][NextTenant]_vars

\* ---- keepalive streams of the stateless variant (index.js 806-819)

\* most keepalive streams opened, most heartbeat frames written on one
MaxStreams == 3
MaxFrames == 3

\* a stream: open until its close event has fired, ping = the interval
\* timer is active, frames = heartbeat frames written so far
Stream(open, ping, frames) == [open |-> open, ping |-> ping, frames |-> frames]

\* app.get("/mcp"): headers flushed, setInterval started, close handler set
KeepaliveOpen ==
    /\ Len(streams) < MaxStreams
    /\ streams' = Append(streams, Stream(TRUE, TRUE, 0))
    /\ UNCHANGED <<boot, secrets, upcalls, redisClient, defaults, localTransports, store,
                   transports, reqs, pendingDel, saved, deleted, now, call>>

\* the close handler that leaves the interval timer running
OnReqCloseKeepTimer(s) == [s EXCEPT !.open = FALSE]

\* req.on("close", () => { clearInterval(ping); ... })
OnReqClose(s) == [s EXCEPT !.open = FALSE, !.ping = FALSE]

\* the interval callback: try { res.write(": ping\n\n") } catch { clearInterval(ping) }
OnPing(s, writeThrows) ==
    IF writeThrows THEN [s EXCEPT !.ping = FALSE]
    ELSE [s EXCEPT !.frames = @ + 1]

\* one tick of stream i's timer, which fires only while the timer is active
PingTick(i, writeThrows) ==
    /\ streams[i].ping
    /\ writeThrows \/ streams[i].frames < MaxFrames
    /\ streams' = [streams EXCEPT ![i] = OnPing(@, writeThrows)]
    /\ UNCHANGED <<boot, secrets, upcalls, redisClient, defaults, localTransports, store,
                   transports, reqs, pendingDel, saved, deleted, now, call>>

\* the close event of stream i's connection fires, once
ConnClose(i) ==
    /\ streams[i].open
    /\ streams' = [streams EXCEPT ![i] = OnReqClose(@)]
    /\ UNCHANGED <<boot, secrets, upcalls, redisClient, defaults, localTransports, store,
                   transports, reqs, pendingDel, saved, deleted, now, call>>

NextKeepalive ==
    \/ KeepaliveOpen
    \/ \E i \in DOMAIN streams : \E writeThrows \in BOOLEAN : PingTick(i, writeThrows)
    \/ \E i \in DOMAIN streams : ConnClose(i)

SpecKeepalive == Init /\ [][NextKeepalive]_vars

\* tool executions of the three servers, one at a time
NextTool ==
    \/ \E v \in Variants, tool \in ApiTools \cup {Webhook}, payload \in Payloads :
           ToolStart(v, tool, payload)
    \/ \E o \in Upstream : ToolAfterFetch(o)

SpecTool == Init /\ [][NextTool]_vars

\* methods of the notifications/* family
Notifications == {"notifications/initialized", "notifications/cancelled"}

\* the server receiving notifications as well: to the session variant's POST
\* handler a notification is a request like any other that is not initialize
NextNotify ==
    \/ Next
    \/ \E p \in Procs, sid \in HeaderIds, m \in Notifications :
           /\ Accepting /\ Addressed(p)
           /\ PostStart(p, sid, m, IF sid = NoId THEN <<"uH", "kH">> ELSE <<Absent, "kH">>, Absent)

SpecNotify == Init /\ [][NextNotify]_vars

\* ---- the stateless variant's POST /mcp (index.js 770-802)

\* the id member of the request body: not sent, or a value
IdAbsent == "absent"
JsonNull == "null"
BodyIds == {IdAbsent, "7"}

\* what the stateless server is sent
StatelessMethods == {"initialize", "tools/list"} \cup Notifications

\* `req.body?.id ?? null`
IdEcho(id) == IF id = IdAbsent THEN JsonNull ELSE id

\* a check that fails only when both defaults are missing
MissingDefaultsBoth(d) == d[1] = Absent /\ d[2] = Absent

\* `!n8nUrl || !n8nApiKey` on the two defaults
MissingDefaults(d) == d[1] = Absent \/ d[2] = Absent

\* res.status(500).json({ jsonrpc, error: { code: -32000, message }, id })
StatelessError(id, msg) ==
    [by |-> "router", status |-> 500, code |-> -32000, msg |-> msg, id |-> IdEcho(id)]

StatelessRequest(method, id) ==
    [verb |-> "POST", method |-> method, id |-> id, pc |-> "start",
     res |-> NoResponse, built |-> FALSE]

\* index.js 770-795: the handler up to `await server.connect(transport)`
StatelessPostStart(method, id) ==
    /\ LET base == StatelessRequest(method, id) IN
       reqs' = Append(reqs,
                 IF method = "notifications/initialized"
                 THEN [base EXCEPT !.pc = "done", !.res = Ack202]
                 ELSE IF MissingDefaults(defaults)
                 THEN [base EXCEPT !.pc = "done",
                                   !.res = StatelessError(id, "not configured")]
                 ELSE [base EXCEPT !.pc = "L795", !.built = TRUE])
    /\ UNCHANGED <<boot, secrets, upcalls, streams, redisClient, defaults, localTransports, store,
                   transports, pendingDel, saved, deleted, now, call>>

\* index.js 795-801: connect and handleRequest have settled; when one of
\* them threw, the catch block answers unless the headers are already sent
StatelessAfterHandle(r, threw, headersSent) ==
    /\ reqs[r].pc = "L795"
    /\ reqs' = [reqs EXCEPT ![r].pc = "done",
                            ![r].res = IF threw /\ ~headersSent
                                       THEN StatelessError(reqs[r].id, "error")
                                       ELSE Forwarded]
    /\ UNCHANGED <<boot, secrets, upcalls, streams, redisClient, defaults, localTransports, store,
                   transports, pendingDel, saved, deleted, now, call>>

\* the stateless server holds no session: Maps and store stay empty
InitStateless ==
    /\ boot = Boot(FALSE, FALSE, "")
    /\ redisClient = [p \in Procs |-> Startup(boot)]
    /\ defaults \in AllDefaultPairs
    /\ localTransports = [p \in Procs |-> {}]
    /\ store = {}
    /\ transports = <<>>
    /\ reqs = <<>>
    /\ pendingDel = {}
    /\ saved = {}
    /\ deleted = {}
    /\ now = 0
    /\ call = NoCall
    /\ upcalls = <<>>
    /\ streams = <<>>
    /\ secrets = NoSecrets

NextStateless ==
    \/ \E m \in StatelessMethods, id \in BodyIds : Accepting /\ StatelessPostStart(m, id)
    \/ \E r \in DOMAIN reqs, threw \in BOOLEAN, headersSent \in BOOLEAN :
           StatelessAfterHandle(r, threw, headersSent)

SpecStateless == InitStateless /\ [][NextStateless]_vars

\* ---- the secrets loader's run

\* the loader of either copy starts on an environment with any target values
InitSecrets ==
    /\ boot = Boot(FALSE, FALSE, "")
    /\ redisClient = [p \in Procs |-> Startup(boot)]
    /\ defaults \in DefaultPairs
    /\ localTransports = [p \in Procs |-> {}]
    /\ store = {}
    /\ transports = <<>>
    /\ reqs = <<>>
    /\ pendingDel = {}
    /\ saved = {}
    /\ deleted = {}
    /\ now = 0
    /\ call = NoCall
    /\ upcalls = <<>>
    /\ streams = <<>>
    /\ \E variant \in {1, 2} :
          \E env \in [1..Len(secretMappings(variant)) -> TargetValues] :
              secrets = [NoSecrets EXCEPT !.variant = variant, !.pos = 1, !.env = env]

\* one iteration of `for (const [fileEnv, targetEnv] of secretMappings)`;
\* an exception that leaves the loop body ends the loop
LoadStep(fileEnv, file) ==
    /\ secrets.pos >= 1
    /\ secrets.pos <= Len(secretMappings(secrets.variant))
    /\ ~secrets.raised
    /\ LET out == loadSecret(secrets.env[secrets.pos], fileEnv, file) IN
       secrets' = [secrets EXCEPT !.pos = @ + 1,
                                  !.env[secrets.pos] = out.value,
                                  !.fileEnv = fileEnv, !.file = file,
                                  !.raised = out.raised]
    /\ UNCHANGED <<boot, upcalls, streams, redisClient, defaults, localTransports, store,
                   transports, reqs, pendingDel, saved, deleted, now, call>>

NextSecrets == \E fileEnv \in FileEnvs, file \in Files : LoadStep(fileEnv, file)

SpecSecrets == InitSecrets /\ [][NextSecrets]_vars

\* the deployments in which one of N8N_URL, N8N_API_KEY is not set
\* (index.js 37-38)
InitCreds ==
    /\ boot \in {Boot(TRUE, TRUE, ""), Boot(FALSE, FALSE, "")}
    /\ redisClient = [p \in Procs |-> Startup(boot)]
    /\ defaults \in {<<"uD", Absent>>, <<Absent, "kD">>}
    /\ localTransports = [p \in Procs |-> {}]
    /\ store = {}
    /\ transports = <<>>
    /\ reqs = <<>>
    /\ pendingDel = {}
    /\ saved = {}
    /\ deleted = {}
    /\ now = 0
    /\ call = NoCall
    /\ upcalls = <<>>
    /\ streams = <<>>
    /\ secrets = NoSecrets

SpecCreds == InitCreds /\ [][Next]_vars

InitResolve ==
    /\ boot = Boot(FALSE, FALSE, "")
    /\ redisClient = [p \in Procs |-> Startup(boot)]
    /\ defaults \in AllDefaultPairs
    /\ localTransports = [p \in Procs |-> {}]
    /\ store = {}
    /\ transports = <<>>
    /\ reqs = <<>>
    /\ pendingDel = {}
    /\ saved = {}
    /\ deleted = {}
    /\ now = 0
    /\ call = NoCall
    /\ upcalls = <<>>
    /\ streams = <<>>
    /\ secrets = NoSecrets

\* handshakes arrive and run getCredentials (index.js 492-524)
NextResolve ==
    \E p \in Procs, hdr \in AllHeaderPairs :
        /\ Len(reqs) < MaxRequests /\ Addressed(p)
        /\ PostStart(p, NoId, "initialize", hdr, Absent)

SpecResolve == InitResolve /\ [][NextResolve]_vars

\* time passes: the store drops every record whose TTL has run out
\* (index.js 86-90: setEx(key, 7200, value))
Tick ==
    /\ now < MaxClock * (SessionTtl \div 2)
    /\ now' = now + SessionTtl \div 2
    /\ store' = {rec \in store : rec.expiresAt > now'}
    /\ UNCHANGED <<boot, secrets, upcalls, streams, redisClient, defaults, localTransports, transports, reqs,
                   pendingDel, saved, deleted, call>>

\* the server over a time span in which records expire
NextTtl ==
    \/ Next
    \/ Tick

SpecTtl == Init /\ [][NextTtl]_vars

\* ---- properties ----------------------------------------------------------
\* request rq is a handshake: a POST initialize without session id
IsHandshake(rq) == rq.verb = "POST" /\ rq.sid = NoId /\ rq.method = "initialize"

\* handler r finishes in this step
Finishes(r) ==
    /\ r \in DOMAIN reqs'
    /\ reqs'[r].pc = "done"
    /\ (r \in DOMAIN reqs => reqs[r].pc # "done")

\* sessionExists(sid) on replica p, evaluated in the state a step leads to
SessionExistsAfter(p, sid) ==
    IF redisClient'[p] THEN MapHas(store', sid) ELSE MapHas(localTransports'[p], sid)

\* the Transports of replica p that serve session id: connected, not closed
LiveTransports(p, id) ==
    {t \in DOMAIN transports :
        /\ transports[t].proc = p
        /\ ~transports[t].closed
        /\ reqs[t].pc \notin {"L524", "L484"}
        /\ (transports[t].gen = id \/ transports[t].sessionId = id)}

AllIds == {randomUUID(r) : r \in DOMAIN reqs} \cup {Forged}

\* C1: when the handler of a handshake with resolvable credentials finishes,
\* a fresh session id has been issued and sessionExists(id) is true on the
\* replica that handled it.
C1_HandshakeRegisters ==
    [][\A r \in DOMAIN reqs' :
          (Finishes(r) /\ IsHandshake(reqs'[r]) /\ reqs'[r].built)
          => /\ transports'[r].sessionId = randomUUID(r)
             /\ SessionExistsAfter(reqs'[r].proc, randomUUID(r))]_vars

\* the saveSession calls made on replica p for id since id was last absent
SaveCalls(p, id) == {x \in saved : x[1] = p /\ x[2] = id}

\* C2: of the Transports that requests racing to create or reconstruct one
\* session id on one replica have built and saved, at most one is live.
C2_OneLiveTransport ==
    \A p \in Procs : \A id \in AllIds :
        Cardinality({x[3] : x \in SaveCalls(p, id)} \cap LiveTransports(p, id)) <= 1

\* C3: however many saveSession calls raced on the same unregistered id, the
\* id counts once: activeSessionCount() is the number of distinct ids saved
\* (and not since removed), not the number of saveSession calls.
C3_CountOncePerId ==
    \A p \in Procs :
        activeSessionCount(p) = Cardinality({x[2] : x \in {y \in saved : y[1] = p}})

\* two saveSession calls on one id have completed on a replica whose Map then
\* holds that id alone
C3_Witness ==
    \E p \in Procs : \E id \in AllIds :
        /\ Cardinality(SaveCalls(p, id)) >= 2
        /\ \A x \in SaveCalls(p, id) : reqs[x[3]].pc = "done"
        /\ activeSessionCount(p) = Cardinality({id})

\* the deployment runs in one mode: every replica local-only, or every
\* replica on the store
OneMode == \A p, q \in Procs : redisClient[p] = redisClient[q]

\* C4: a non-initialize POST that arrives with an id for which a
\* deleteSession has completed is rejected as session-not-found, on every
\* replica and in both modes.
C4_DeletedIsRejected ==
    \A r \in DOMAIN reqs :
        (OneMode /\ reqs[r].late /\ reqs[r].verb = "POST" /\ reqs[r].method # "initialize"
            /\ reqs[r].pc = "done")
        => reqs[r].res = SessionNotFound

\* the handshake that generated session id
HandshakeOf(id) == CHOOSE r \in DOMAIN reqs : randomUUID(r) = id

\* the credentials the handshake of id resolved from its headers and the defaults
HandshakeCredentials(id) ==
    getCredentials(reqs[HandshakeOf(id)].hUrl, reqs[HandshakeOf(id)].hKey)

BoundAsResolved(e) ==
    /\ e.key \in {randomUUID(r) : r \in DOMAIN reqs}
    /\ reqs[HandshakeOf(e.key)].verb = "POST"
    /\ reqs[HandshakeOf(e.key)].method = "initialize"
    /\ e.n8nUrl = HandshakeCredentials(e.key).url
    /\ e.n8nApiKey = HandshakeCredentials(e.key).apiKey

\* C5: every local entry and every store record of a session holds the
\* credentials its handshake resolved, whatever headers later requests on
\* that session id carry.
C5_CredentialsNeverChange ==
    /\ \A p \in Procs : \A e \in localTransports[p] : BoundAsResolved(e)
    /\ \A rec \in store : BoundAsResolved(rec)

\* a later request on a registered session, with credential headers other
\* than the handshake's, has been served (directly or by reconstruction)
\* and the entry and the record are still there
C5_Witness ==
    \E r \in DOMAIN reqs :
        /\ reqs[r].pc = "done" /\ reqs[r].res = Forwarded /\ reqs[r].sid # NoId
        /\ reqs[r].raw # Null
        /\ MapHas(localTransports[reqs[r].proc], reqs[r].sid)
        /\ MapHas(store, reqs[r].sid)
        /\ getCredentials(reqs[r].hUrl, reqs[r].hKey).err = ""
        /\ getCredentials(reqs[r].hUrl, reqs[r].hKey).url
             # HandshakeCredentials(reqs[r].sid).url

\* handler r takes a step from position pos
StepsFrom(r, pos) == reqs[r].pc = pos /\ reqs'[r].pc # pos

\* C6: in distributed mode a POST whose id is not in the replica's Map while
\* the store holds its record takes the reconstruction path: the Transport
\* built is bound to that very id and to the stored credentials, it is
\* registered under that id, and the request is forwarded into it.
C6_Reconstruction ==
    /\ [](\A r \in DOMAIN reqs :
            reqs[r].pc \in {"L484", "L485"} \/ (reqs[r].pc = "done" /\ reqs[r].raw # Null)
            => /\ transports[r].gen = reqs[r].sid
               /\ transports[r].sessionId \in {NoId, reqs[r].sid}
               /\ transports[r].proc = reqs[r].proc
               /\ reqs[r].raw.key = reqs[r].sid
               /\ transports[r].n8nUrl = reqs[r].raw.n8nUrl
               /\ transports[r].n8nApiKey = reqs[r].raw.n8nApiKey
               /\ (reqs[r].pc = "done" => reqs[r].res = Forwarded /\ reqs[r].fwd = r))
    /\ [][\A r \in DOMAIN reqs :
            /\ (StepsFrom(r, "L465") /\ reqs[r].session = Null /\ redisClient[reqs[r].proc]
                   /\ MapHas(store, reqs[r].sid))
               => reqs'[r].pc = "L472"
            /\ (StepsFrom(r, "L472") /\ MapHas(store, reqs[r].sid))
               => reqs'[r].pc = "L473"
            /\ (StepsFrom(r, "L473") /\ MapHas(store, reqs[r].sid))
               => reqs'[r].pc = "L484" /\ reqs'[r].raw = MapGet(store, reqs[r].sid)
            /\ StepsFrom(r, "L484")
               => MapGet(localTransports'[reqs[r].proc], reqs[r].sid)
                    = Entry(reqs[r].sid, r, reqs[r].raw.n8nUrl, reqs[r].raw.n8nApiKey)
            /\ StepsFrom(r, "L485") => reqs'[r].pc = "done"]_vars

\* a request on a session created on the other replica has been served by
\* reconstruction; the replica now holds the session under the same id
C6_Witness ==
    \E r \in DOMAIN reqs :
        /\ reqs[r].pc = "done" /\ reqs[r].raw # Null /\ reqs[r].fwd = r
        /\ reqs[HandshakeOf(reqs[r].sid)].proc # reqs[r].proc
        /\ MapGet(localTransports[reqs[r].proc], reqs[r].sid)
             = Entry(reqs[r].sid, r, HandshakeCredentials(reqs[r].sid).url,
                     HandshakeCredentials(reqs[r].sid).apiKey)

\* POST r carried an id its local-only replica did not hold
UnknownLocalOnly(r) ==
    /\ reqs[r].verb = "POST" /\ reqs[r].sid # NoId /\ reqs[r].pc # "L465"
    /\ ~redisClient[reqs[r].proc]
    /\ reqs[r].session = Null

\* C7: without a store a request with an id unknown to the replica never
\* enters the reconstruction path; if it is not an initialize request it is
\* rejected as session-not-found, no Transport is built and the Maps and the
\* store are as they were.
C7_NoReconstructionLocalOnly ==
    /\ [](\A r \in DOMAIN reqs :
            UnknownLocalOnly(r)
            => /\ reqs[r].pc \notin {"L472", "L473", "L484", "L485"}
               /\ reqs[r].raw = Null
               /\ reqs[r].method # "initialize"
                  => /\ reqs[r].pc = "done"
                     /\ reqs[r].res = SessionNotFound
                     /\ ~reqs[r].built /\ r \notin DOMAIN transports)
    /\ [][\A r \in DOMAIN reqs :
            (StepsFrom(r, "L465") /\ reqs[r].session = Null /\ ~redisClient[reqs[r].proc]
                /\ reqs[r].method # "initialize")
            => UNCHANGED <<localTransports, store, transports>>]_vars

\* the rejected request named a session that the other replica holds
C7_Witness ==
    \E r \in DOMAIN reqs : \E q \in Procs :
        /\ UnknownLocalOnly(r) /\ reqs[r].pc = "done" /\ reqs[r].res = SessionNotFound
        /\ q # reqs[r].proc
        /\ MapHas(localTransports[q], reqs[r].sid)

\* POST r is not an initialize request and its id was found neither
\* in the replica's Map nor in the store
FoundNowhere(r) ==
    /\ reqs[r].verb = "POST" /\ reqs[r].method # "initialize"
    /\ \/ reqs[r].pc = "L465" /\ reqs[r].session = Null /\ ~redisClient[reqs[r].proc]
       \/ reqs[r].pc = "L472" /\ ~MapHas(store, reqs[r].sid)

\* C8: a non-initialize POST whose id is found neither locally nor in the
\* store is answered with the JSON-RPC error -32000 "session not found"; no
\* Transport is built and neither the Maps nor the store change.
C8_SessionNotFound ==
    /\ [](\A r \in DOMAIN reqs :
            reqs[r].res = SessionNotFound
            => /\ reqs[r].res.code = -32000 /\ reqs[r].res.by = "router"
               /\ reqs[r].pc = "done"
               /\ ~reqs[r].built /\ r \notin DOMAIN transports)
    /\ [][\A r \in DOMAIN reqs :
            (FoundNowhere(r) /\ reqs'[r].pc # reqs[r].pc)
            => /\ reqs'[r].pc = "done"
               /\ reqs'[r].res = SessionNotFound
               /\ UNCHANGED <<localTransports, store, transports>>]_vars

\* in distributed mode, a tools/list with an id that neither the Map nor the
\* store holds has been rejected
C8_Witness ==
    \E r \in DOMAIN reqs :
        /\ reqs[r].verb = "POST" /\ reqs[r].sid # NoId /\ redisClient[reqs[r].proc]
        /\ reqs[r].pc = "done" /\ reqs[r].res = SessionNotFound

\* request r is a teardown that carries a session id
IsTeardown(rq) == rq.verb = "DELETE" /\ rq.sid # NoId

\* handler r starts in this step
Starts(r) == r \notin DOMAIN reqs /\ r \in DOMAIN reqs'

C10_ClosedBeforeDeleted ==
    \A r \in DOMAIN reqs :
        (IsTeardown(reqs[r]) /\ reqs[r].session # Null /\ reqs[r].pc \in {"L545", "done"})
        => reqs[r].closeTried

\* C10 amended: the teardown of a known session removes the session from
\* the registry first (the Map entry, then the store record) and only then
\* closes the Transport; whether or not the close fails, the session stays
\* removed and the teardown answers 200.
C10_DeletedThenClosed ==
    /\ [](\A r \in DOMAIN reqs :
            (IsTeardown(reqs[r]) /\ reqs[r].session # Null /\ reqs[r].pc # "L545")
            => /\ reqs[r].pc = "done"
               /\ reqs[r].closeTried
               /\ reqs[r].res = TeardownOk)
    /\ [][\A r \in DOMAIN reqs :
            (IsTeardown(reqs[r]) /\ reqs[r].session # Null /\ StepsFrom(r, "L545"))
            => /\ ~reqs[r].closeTried /\ reqs'[r].closeTried
               /\ \A e \in localTransports[reqs[r].proc] :
                      e.transport # reqs[r].session.transport
               /\ \A e \in localTransports'[reqs[r].proc] :
                      e.transport # reqs[r].session.transport
               /\ redisClient[reqs[r].proc] => ~MapHas(store', reqs[r].sid)]_vars

\* a teardown whose close failed has answered 200, the session removed
C10_Witness ==
    \E r \in DOMAIN reqs :
        /\ IsTeardown(reqs[r]) /\ reqs[r].pc = "done"
        /\ reqs[r].closeFailed
        /\ reqs[r].res = TeardownOk
        /\ ~MapHas(localTransports[reqs[r].proc], reqs[r].sid)
        /\ ~MapHas(store, reqs[r].sid)
        /\ ~transports[reqs[r].session.transport].closed

\* C11: sessionExists(id) is true exactly when id is in the replica's Map or,
\* with a store configured, the store holds a live record of id; a session
\* present in the Map is reported as existing in both modes.  (Stated for
\* the states in which no handler is between two of its steps.)
C11_ExistsIffLocalOrStore ==
    (InFlight = {} /\ pendingDel = {})
    => \A p \in Procs : \A id \in AllIds :
           sessionExists(p, id)
               <=> (MapHas(localTransports[p], id) \/ (redisClient[p] /\ MapHas(store, id)))

\* C12: getSession(id) is a lookup in the replica's own Map: the POST handler
\* gets that Map's entry for id, or null when the Map has none, whatever the
\* store or another replica holds; the call builds no Transport and leaves
\* the Maps and the store as they were.
C12_GetSessionLocalOnly ==
    [][\A r \in DOMAIN reqs' :
          (Starts(r) /\ reqs'[r].verb = "POST" /\ reqs'[r].sid # NoId)
          => /\ reqs'[r].pc = "L465"
             /\ reqs'[r].session
                  = (IF \E e \in localTransports[reqs'[r].proc] : e.key = reqs'[r].sid
                     THEN CHOOSE e \in localTransports[reqs'[r].proc] : e.key = reqs'[r].sid
                     ELSE Null)
             /\ reqs'[r].raw = Null /\ ~reqs'[r].built
             /\ UNCHANGED <<localTransports, store, transports>>]_vars

\* getSession has returned null for an id whose record the store holds and
\* whose Transport lives on the other replica
C12_Witness ==
    \E r \in DOMAIN reqs : \E q \in Procs :
        /\ reqs[r].verb = "POST" /\ reqs[r].pc = "L465" /\ reqs[r].session = Null
        /\ MapHas(store, reqs[r].sid)
        /\ q # reqs[r].proc /\ MapHas(localTransports[q], reqs[r].sid)
        /\ ~MapHas(localTransports[reqs[r].proc], reqs[r].sid)

\* C13: a record is written with a TTL of 7200 seconds when its session is
\* created, and that expiry is fixed: as long as the record is in the store
\* no activity on the session (a forwarded request, a reconstruction on
\* another replica) changes it.
C13_TtlFixedAtCreation ==
    [][\A rec \in store' :
          IF MapHas(store, rec.key)
          THEN rec.expiresAt = MapGet(store, rec.key).expiresAt
          ELSE rec.expiresAt = now + SessionTtl]_vars

\* the ids that were in neither Map of p nor the store when the step began
AbsentBefore(p, sid) == ~MapHas(localTransports[p], sid) /\ ~MapHas(store, sid)

\* C14: deleteSession(id) removes id from the replica's Map (first step) and
\* from the store (second step) and returns the entry the Map held, or
\* nothing when the Map held none; called on an id that is in neither, it
\* changes nothing and returns nothing, so a second call leaves the state the
\* first one left.
C14_DeleteSessionIdempotent ==
    [][\A r \in DOMAIN reqs' :
          /\ (Starts(r) /\ IsTeardown(reqs'[r]))
             => /\ ~MapHas(localTransports'[reqs'[r].proc], reqs'[r].sid)
                /\ \A q \in Procs \ {reqs'[r].proc} :
                       localTransports'[q] = localTransports[q]
                /\ \A e \in localTransports[reqs'[r].proc] :
                       IF e.key = reqs'[r].sid THEN reqs'[r].session = e
                       ELSE e \in localTransports'[reqs'[r].proc]
                /\ ~MapHas(localTransports[reqs'[r].proc], reqs'[r].sid)
                      => reqs'[r].session = Null /\ UNCHANGED localTransports
                /\ UNCHANGED store
          /\ (r \in DOMAIN reqs /\ IsTeardown(reqs[r]) /\ StepsFrom(r, "L545"))
             => /\ redisClient[reqs[r].proc]
                     => store' = {rec \in store : rec.key # reqs[r].sid}
                /\ ~redisClient[reqs[r].proc] => UNCHANGED store
                /\ reqs'[r].session = reqs[r].session
                /\ (reqs[r].session = Null /\ AbsentBefore(reqs[r].proc, reqs[r].sid))
                      => UNCHANGED <<localTransports, store, transports>>]_vars

\* a deleteSession that removed a session from the Map and the store has
\* completed and returned the entry; a second deleteSession of the same id on
\* the same replica has completed, returned nothing, and the id is still absent
C14_Witness ==
    \E r1, r2 \in DOMAIN reqs :
        /\ r1 < r2
        /\ IsTeardown(reqs[r1]) /\ IsTeardown(reqs[r2])
        /\ reqs[r1].sid = reqs[r2].sid /\ reqs[r1].proc = reqs[r2].proc
        /\ redisClient[reqs[r1].proc]
        /\ reqs[r1].pc = "done" /\ reqs[r1].session # Null
        /\ reqs[r1].session.key = reqs[r1].sid
        /\ reqs[r2].pc = "done" /\ reqs[r2].session = Null
        /\ AbsentBefore(reqs[r2].proc, reqs[r2].sid)

\* C15: with a store configured the store decides whether a session exists:
\* a request is forwarded into a Transport for a session id only while the
\* store holds a live record of that id; a request that arrives when the
\* record was deleted through another replica is not served by a replica
\* whose Map still holds the session.
C15_StoreDecides ==
    [][\A r \in DOMAIN reqs :
          (/\ reqs[r].verb = "POST" /\ reqs[r].sid # NoId
           /\ redisClient[reqs[r].proc]
           /\ reqs[r].pc # "done" /\ reqs'[r].pc = "done"
           /\ reqs'[r].res = Forwarded
           /\ reqs[r].late
           /\ reqs[r].sid \in {transports'[reqs'[r].fwd].gen,
                                transports'[reqs'[r].fwd].sessionId})
          => MapHas(store, reqs[r].sid)]_vars

\* C16: a session id is never reused: once a deleteSession of id has
\* completed, no step registers id again, neither in a Map that did not hold
\* it nor in the store; in particular not a reconstruction that read the
\* record before the deletion.
C16_NeverReused ==
    [][\A id \in deleted :
          /\ MapHas(store', id) => MapHas(store, id)
          /\ \A p \in Procs :
                 MapHas(localTransports'[p], id) => MapHas(localTransports[p], id)]_vars

\* the value request rq leaves unresolved: neither its header nor the
\* deployment default gives it ("" when both values resolve)
Unresolved(rq) ==
    IF rq.hUrl = Absent /\ defaults[1] = Absent THEN "url"
    ELSE IF rq.hKey = Absent /\ defaults[2] = Absent THEN "apiKey"
    ELSE ""

\* initialize request r was not served by an existing session: it has
\* reached the credential resolution of the handshake path
ReachedCredentials(r) ==
    /\ reqs[r].verb = "POST" /\ reqs[r].method = "initialize"
    /\ reqs[r].session = Null /\ reqs[r].raw = Null
    /\ reqs[r].pc \notin {"L465", "L472", "L473", "thrown"}

\* C17: an initialize request whose URL or API key resolves neither from its
\* header nor from the deployment default is rejected with the JSON-RPC error
\* -32000; no Transport is built for it and no session of it is in a Map or
\* in the store.
C17_UnresolvedRejected ==
    \A r \in DOMAIN reqs :
        (ReachedCredentials(r) /\ Unresolved(reqs[r]) # "")
        => /\ reqs[r].pc = "done"
           /\ reqs[r].res.by = "router" /\ reqs[r].res.status = 400
           /\ reqs[r].res.code = -32000
           /\ reqs[r].res.msg = Unresolved(reqs[r])
           /\ ~reqs[r].built /\ r \notin DOMAIN transports
           /\ ~MapHas(store, randomUUID(r))
           /\ \A p \in Procs :
                  /\ ~MapHas(localTransports[p], randomUUID(r))
                  /\ \A e \in localTransports[p] : e.transport # r

\* a handshake without x-n8n-url, on a deployment without N8N_URL, has been
\* rejected, while a handshake that sent both headers holds its session
C17_Witness ==
    \E r, r2 \in DOMAIN reqs :
        /\ ReachedCredentials(r) /\ Unresolved(reqs[r]) = "url"
        /\ reqs[r].pc = "done" /\ reqs[r].res.code = -32000
        /\ IsHandshake(reqs[r2]) /\ reqs[r2].pc = "done" /\ reqs[r2].built
        /\ MapHas(localTransports[reqs[r2].proc], randomUUID(r2))

\* C18: a request whose method is a notification is acknowledged at once with
\* an empty 202 response and no JSON-RPC envelope: its handler is done when
\* it returns to the event loop, it looked up no session and built no
\* Transport.
C18_NotificationAcked ==
    \A r \in DOMAIN reqs :
        (reqs[r].verb = "POST" /\ reqs[r].method \in Notifications)
        => /\ reqs[r].pc = "done"
           /\ reqs[r].res = Ack202
           /\ ~reqs[r].built /\ r \notin DOMAIN transports

\* C19: a tool execution never raises: for every tool of every server and
\* every outcome of its arguments and of its upstream call the handler
\* returns a result with a content list, isError set when the call failed.
C19_ToolNeverRaises ==
    /\ call.pc # "raised"
    /\ call.pc = "returned"
       => /\ call.content >= 1
          /\ call.upstream \in {"non2xx", "network", "timeout"} => call.isError

\* C20: no request is left without a response: a handler that has stopped
\* running, also because one of its steps failed (the stored record is
\* missing when it is read), has sent a response.
C20_EveryRequestAnswered ==
    \A r \in DOMAIN reqs :
        reqs[r].pc \in {"done", "thrown"} => reqs[r].res # NoResponse

\* the saveSession called by handler r failed: r built its Transport and
\* stopped on a rejection
SaveFailed(r) == reqs[r].pc = "thrown" /\ reqs[r].built

\* C21: the backing mode is fixed at startup: a process is in distributed
\* mode iff REDIS_URL was set and the first connect succeeded, and it stays
\* in that mode whatever requests it handles and whatever store operation
\* fails later.
C21_ModeFixedAtStartup ==
    \A p \in Procs : redisClient[p] = (boot.url /\ boot.ok)

\* a write to the store failed on a replica in distributed mode, and a later
\* request on that replica was still served from the store
C21_Witness ==
    \E r, r2 \in DOMAIN reqs :
        /\ SaveFailed(r) /\ redisClient[reqs[r].proc]
        /\ r2 > r /\ reqs[r2].proc = reqs[r].proc
        /\ reqs[r2].pc = "done" /\ reqs[r2].raw # Null

\* C30: saveSession is all-or-nothing in distributed mode: when the write of
\* the record fails, the Map does not hold the entry saveSession was called
\* with.
C30_SaveAllOrNothing ==
    \A r \in DOMAIN reqs :
        (SaveFailed(r) /\ redisClient[reqs[r].proc])
        => \A e \in localTransports[reqs[r].proc] : e.transport # r

\* C29: when the record of the session disappears between the existence
\* check and the fetch of the reconstruction path, the request is rejected as
\* session-not-found: the handler does not fail, builds no Transport and
\* registers nothing.
C29_VanishedRecordRejected ==
    [][\A r \in DOMAIN reqs :
          (StepsFrom(r, "L473") /\ ~MapHas(store, reqs[r].sid))
          => /\ reqs'[r].pc = "done"
             /\ reqs'[r].res = SessionNotFound
             /\ UNCHANGED <<localTransports, store, transports>>]_vars

\* a teardown r removes something in this step: the Map entry of its id, or
\* the record of its id
TeardownRemoves(r) ==
    \/ /\ Starts(r) /\ IsTeardown(reqs'[r])
       /\ MapHas(localTransports[reqs'[r].proc], reqs'[r].sid)
    \/ /\ r \in DOMAIN reqs /\ IsTeardown(reqs[r]) /\ StepsFrom(r, "L545")
       /\ MapHas(store, reqs[r].sid) /\ ~MapHas(store', reqs[r].sid)

\* C26: a teardown answers not-found only when its id was unknown, in the
\* replica's Map and in the store: a teardown that removed a Map entry or a
\* record answers success, and one that answers not-found has changed
\* neither the Map nor the store.
C26_NotFoundOnlyIfUnknown ==
    [][\A r \in DOMAIN reqs' :
          (r \in DOMAIN reqs /\ IsTeardown(reqs[r]) /\ StepsFrom(r, "L545"))
          => /\ (TeardownRemoves(r) \/ reqs[r].session # Null) => reqs'[r].res = TeardownOk
             /\ reqs'[r].res = TeardownNotFound => UNCHANGED <<localTransports, store>>]_vars

\* Transport t emits its close signal in this step
Closes(t) == t \in DOMAIN transports /\ ~transports[t].closed /\ transports'[t].closed

\* C28: the close signal of a Transport removes a Map entry only if the
\* entry holds that very Transport: the entry under which another Transport
\* is registered for the same id (the winner of a creation race, a later
\* saveSession) stays.
C28_CloseRemovesOwnEntryOnly ==
    [][\A t \in DOMAIN transports :
          Closes(t)
          => \A p \in Procs : \A e \in localTransports[p] :
                 e.transport # t => e \in localTransports'[p]]_vars

\* the session id Transport t serves: the one it was built for, or the one it
\* generated
SessionOf(t) ==
    IF transports[t].gen # NoId THEN transports[t].gen ELSE transports[t].sessionId

\* Transport t is the one registered for its session on its replica
Registered(t) ==
    /\ SessionOf(t) # NoId
    /\ \E e \in localTransports[transports[t].proc] :
           e.key = SessionOf(t) /\ e.transport = t

C22_NoOrphanTicker ==
    /\ [](/\ \A i \in DOMAIN streams : streams[i].ping => streams[i].open
          /\ Cardinality({i \in DOMAIN streams : streams[i].ping})
               <= Cardinality({i \in DOMAIN streams : streams[i].open}))
    /\ [][\A i \in DOMAIN streams :
             /\ streams'[i].frames # streams[i].frames
                => streams[i].open /\ streams[i].ping
             /\ ~streams[i].ping => ~streams'[i].ping
             /\ ~streams[i].open => ~streams'[i].open]_vars

\* a stream that wrote frames has been closed by its client while another
\* stream, whose write failed, is still connected and a third still ticks
C22_Witness ==
    \E i, j, k \in DOMAIN streams :
        /\ ~streams[i].open /\ ~streams[i].ping /\ streams[i].frames = 2
        /\ streams[j].open /\ ~streams[j].ping
        /\ streams[k].open /\ streams[k].ping /\ streams[k].frames = 1

\* the Authorization header of request r is exactly 'Bearer <token>'
ExactBearer(r) == reqs[r].auth = "Bearer " \o boot.serverKey

C24_TimeoutFailsOwnCallOnly ==
    /\ [](\A i \in DOMAIN upcalls :
            /\ upcalls[i].aborted => upcalls[i].timer = "fired"
            /\ upcalls[i].upstream = "timeout"
               => upcalls[i].timer = "fired" /\ upcalls[i].isError
            /\ (upcalls[i].pc = "returned" /\ upcalls[i].timer # "fired")
               => upcalls[i].upstream \in Settles)
    /\ [][\A i \in DOMAIN upcalls :
             (upcalls[i].timer = "armed" /\ upcalls'[i].timer = "fired")
             => /\ \A j \in DOMAIN upcalls \ {i} : upcalls'[j] = upcalls[j]
                /\ upcalls'[i].pc = "fetch"
                /\ UNCHANGED <<localTransports, store, transports, pendingDel,
                               reqs, redisClient>>]_vars

\* a call timed out and failed; a call started after it on the same session
\* and one on another session returned the upstream's answer, and both
\* sessions are still registered
C24_Witness ==
    \E i, j, k \in DOMAIN upcalls :
        /\ upcalls[i].upstream = "timeout" /\ upcalls[i].isError
        /\ j # i /\ upcalls[j].t = upcalls[i].t
        /\ upcalls[j].upstream = "ok" /\ ~upcalls[j].isError
        /\ upcalls[k].t # upcalls[i].t
        /\ upcalls[k].upstream = "ok" /\ upcalls[k].timer = "cleared"
        /\ Serving(upcalls[i].t) /\ Serving(upcalls[k].t)
        /\ i < j /\ i < k

\* the value a header gives, else the default's
HeaderOrDefault(h, d) == IF h # "" THEN h ELSE d

C32_LocalSessionForwarded ==
    [][/\ \A r \in DOMAIN reqs' :
             (Starts(r) /\ reqs'[r].verb = "POST" /\ reqs'[r].res.status # 401
                /\ MapHas(localTransports[reqs'[r].proc], reqs'[r].sid))
             => /\ reqs'[r].pc = "L465"
                /\ reqs'[r].session = MapGet(localTransports[reqs'[r].proc], reqs'[r].sid)
       /\ \A r \in DOMAIN reqs :
             (StepsFrom(r, "L465") /\ reqs[r].session # Null)
             => /\ reqs'[r].pc = "done" /\ reqs'[r].res = Forwarded
                /\ reqs'[r].fwd = reqs[r].session.transport
                /\ reqs'[r].raw = Null /\ ~reqs'[r].built
                /\ reqs'[r].n8nUrl = Absent /\ reqs'[r].n8nApiKey = Absent
                /\ DOMAIN transports' = DOMAIN transports
                /\ UNCHANGED <<localTransports, store, pendingDel, saved, deleted>>]_vars

\* in distributed mode an initialize request that names a session of the
\* replica it arrived at was forwarded into that session's Transport, and the
\* entry and the record are still there
C32_Witness ==
    \E r \in DOMAIN reqs :
        /\ reqs[r].verb = "POST" /\ reqs[r].method = "initialize" /\ reqs[r].sid # NoId
        /\ redisClient[reqs[r].proc]
        /\ reqs[r].session # Null /\ reqs[r].pc = "done" /\ reqs[r].res = Forwarded
        /\ reqs[r].fwd = reqs[r].session.transport /\ reqs[r].fwd # r
        /\ r \notin DOMAIN transports
        /\ MapGet(localTransports[reqs[r].proc], reqs[r].sid) = reqs[r].session
        /\ MapHas(store, reqs[r].sid)

\* initialize request r named a session id and was served neither by a local
\* session nor by reconstruction: the router took the handshake path
HandshakeOnUnknownId(r) == ReachedCredentials(r) /\ reqs[r].sid # NoId

\* the ids under which the Transport of request r is registered in a Map
RegisteredIdsOf(r) ==
    {e.key : e \in {x \in UNION {localTransports[p] : p \in Procs} : x.transport = r}}

\* the Transport such a request builds generates its own id and is
\* registered under no other id, never under the client's
NeverUnderClientId ==
    \A r \in DOMAIN reqs :
        (HandshakeOnUnknownId(r) /\ reqs[r].built)
        => /\ transports[r].gen = NoId
           /\ transports[r].sessionId \in {NoId, randomUUID(r)}
           /\ randomUUID(r) # reqs[r].sid
           /\ RegisteredIdsOf(r) \subseteq {randomUUID(r)}
           /\ \A x \in saved : x[3] = r => x[2] = randomUUID(r)

\* C33: an initialize request that carries a session id unknown locally and
\* in the store is handled as a new handshake: when its handler finishes the
\* session it created is registered under the freshly generated id, and the
\* Transport is never registered under the client-supplied id.
C33_UnknownIdFreshHandshake ==
    /\ [](NeverUnderClientId)
    /\ [][\A r \in DOMAIN reqs :
             (reqs[r].pc # "done" /\ reqs'[r].pc = "done" /\ reqs'[r].built
                /\ reqs[r].verb = "POST" /\ reqs[r].method = "initialize"
                /\ reqs[r].sid # NoId /\ reqs[r].session = Null /\ reqs'[r].raw = Null)
             => \E e \in localTransports'[reqs[r].proc] :
                    e.key = randomUUID(r) /\ e.transport = r]_vars

\* C34: in distributed mode, whenever the Map of a replica holds an entry for
\* a session id and the store holds a record for the same id, the entry and
\* the record hold the same URL and the same API key, on the replica that
\* created the session and on every replica that reconstructed it.
C34_EntryMatchesRecord ==
    \A p \in Procs : \A e \in localTransports[p] : \A rec \in store :
        (redisClient[p] /\ e.key = rec.key)
        => e.n8nUrl = rec.n8nUrl /\ e.n8nApiKey = rec.n8nApiKey

\* a session created with header credentials on one replica was reconstructed
\* on the other by a request with other headers; both Maps and the store hold
\* it
C34_Witness ==
    \E r \in DOMAIN reqs : \E q \in Procs :
        /\ reqs[r].pc = "done" /\ reqs[r].raw # Null /\ reqs[r].hUrl = Absent
        /\ q # reqs[r].proc
        /\ MapHas(localTransports[reqs[r].proc], reqs[r].sid)
        /\ MapGet(localTransports[reqs[r].proc], reqs[r].sid).transport = r
        /\ MapHas(localTransports[q], reqs[r].sid)
        /\ MapHas(store, reqs[r].sid)
        /\ MapGet(store, reqs[r].sid).n8nUrl = "uH"

\* the session id under which the Map of its replica leads to Transport t
KeyOf(t) == (CHOOSE e \in localTransports[transports[t].proc] : e.transport = t).key

\* C35: the URL and the key an API tool call on a session goes upstream with
\* are the pair the session's handshake resolved from its own headers and the
\* defaults, whatever credentials other sessions hold and whatever headers
\* other requests carried, on the replica that created the session and on
\* one that reconstructed it.
C35_TenantIsolation ==
    [][\A i \in DOMAIN upcalls' :
          (i \notin DOMAIN upcalls /\ upcalls'[i].tool # Webhook)
          => LET h == HandshakeOf(KeyOf(upcalls'[i].t)) IN
             /\ upcalls'[i].url = HeaderOrDefault(reqs[h].hUrl, defaults[1])
             /\ upcalls'[i].key = HeaderOrDefault(reqs[h].hKey, defaults[2])]_vars

\* two sessions with different credentials; a tool call on the older one,
\* made through the Transport another replica reconstructed after the
\* younger one was created, went out with the older one's pair
C35_Witness ==
    \E i \in DOMAIN upcalls : \E r, q \in DOMAIN transports :
        /\ upcalls[i].tool # Webhook /\ upcalls[i].t = r
        /\ reqs[r].raw # Null /\ reqs[r].hUrl = "uH"
        /\ upcalls[i].url = "uD" /\ upcalls[i].key = "kH"
        /\ q < r /\ reqs[q].raw = Null
        /\ transports[q].n8nUrl = "uH" /\ transports[q].n8nApiKey = "kD"
        /\ Serving(q)

\* C36: a DELETE /mcp without mcp-session-id header is answered 400 in the
\* step it arrives in; the step changes no Map, no record and no pending
\* deletion and closes no Transport, and the handler takes no further step.
C36_TeardownWithoutHeader ==
    /\ [](\A r \in DOMAIN reqs :
            (reqs[r].verb = "DELETE" /\ reqs[r].sid = NoId /\ reqs[r].res.status # 401)
            => /\ reqs[r].pc = "done" /\ reqs[r].res.status = 400
               /\ reqs[r].session = Null /\ ~reqs[r].closeTried)
    /\ [][\A r \in DOMAIN reqs' :
             (Starts(r) /\ reqs'[r].verb = "DELETE" /\ reqs'[r].sid = NoId)
             => UNCHANGED <<localTransports, store, transports, pendingDel,
                            saved, deleted>>]_vars

\* a teardown without header was answered 400 by a replica that holds a
\* session, whose entry, record and Transport are as they were
C36_Witness ==
    \E r \in DOMAIN reqs : \E t \in DOMAIN transports :
        /\ reqs[r].verb = "DELETE" /\ reqs[r].sid = NoId
        /\ reqs[r].pc = "done" /\ reqs[r].res = TeardownNoHeader
        /\ t < r /\ transports[t].proc = reqs[r].proc /\ ~transports[t].closed
        /\ \E e \in localTransports[reqs[r].proc] : e.transport = t
        /\ MapHas(store, transports[t].sessionId)

\* C37: in the stateless variant a POST that is not a notification, arriving
\* while the default URL or the default key is missing, is answered in its
\* arrival step with the JSON-RPC error -32000 that carries the request's id
\* (null when it sent none), and nothing was built for it; the step leaves
\* every other request as it is, and the requests after it are answered too.
C37_ConfigurationError ==
    /\ [](\A r \in DOMAIN reqs :
            (reqs[r].method \notin Notifications
               /\ (defaults[1] = "" \/ defaults[2] = ""))
            => /\ reqs[r].pc = "done"
               /\ reqs[r].res.code = -32000 /\ reqs[r].res.status = 500
               /\ reqs[r].res.id = (IF reqs[r].id = IdAbsent THEN JsonNull ELSE reqs[r].id)
               /\ ~reqs[r].built)
    /\ [][\A r \in DOMAIN reqs' :
             (Starts(r) /\ reqs'[r].method \notin Notifications
                /\ (defaults[1] = "" \/ defaults[2] = ""))
             => /\ \A q \in DOMAIN reqs : reqs'[q] = reqs[q]
                /\ UNCHANGED <<defaults, localTransports, store, transports>>]_vars

\* without N8N_API_KEY: a request with an id and then one without were
\* answered with the error, echoing the id and null, and the notification
\* that followed was acknowledged
C37_Witness ==
    /\ defaults = <<"uD", Absent>>
    /\ Len(reqs) = 3
    /\ reqs[1].method = "tools/list" /\ reqs[1].id = "7"
    /\ reqs[1].res.code = -32000 /\ reqs[1].res.id = "7"
    /\ reqs[2].method = "initialize" /\ reqs[2].id = IdAbsent
    /\ reqs[2].res.code = -32000 /\ reqs[2].res.id = JsonNull
    /\ reqs[3].method = "notifications/initialized" /\ reqs[3].res = Ack202

\* C38: an iteration of the secrets loader sets its target, to the trimmed
\* content of the file, only when the _FILE variable is defined (and not
\* empty), the target is not already set to a value, the file exists, can be
\* read and its trimmed content is not empty; in every other case the target
\* keeps its value, so a value already set is never overwritten; no other
\* target changes; and no iteration throws, so every mapping is processed.
C38_SecretLoading ==
    /\ [](~secrets.raised)
    /\ [][secrets' # secrets
          => LET i    == secrets.pos
                 cur  == secrets.env[i]
                 fe   == secrets'.fileEnv
                 f    == secrets'.file
                 load == /\ fe.set /\ fe.val # <<>>
                         /\ ~(cur.set /\ cur.val # <<>>)
                         /\ f.exists /\ f.readable
                         /\ Trim(f.content) # <<>>
             IN  /\ secrets'.pos = i + 1
                 /\ secrets'.env[i] = IF load THEN [set |-> TRUE, val |-> Trim(f.content)]
                                      ELSE cur
                 /\ \A j \in DOMAIN secrets.env \ {i} : secrets'.env[j] = secrets.env[j]]_vars

\* second copy of the loader, all four mappings processed: the first target
\* kept its value although its file held another, the second was loaded with
\* the trimmed content, the third was left undefined, and the fourth was
\* still processed and loaded from a file with surrounding white space
C38_Witness ==
    /\ secrets.variant = 2 /\ secrets.pos = 5
    /\ secrets.env[1] = Val(<<"o", "l", "d">>)
    /\ secrets.env[2] = Val(<<"s", " ", "k">>)
    /\ secrets.env[3] = Undefined
    /\ secrets.env[4] = Val(<<"s">>)
    /\ secrets.file = File(TRUE, TRUE, <<" ", "s", "\n">>)

====
